---- MODULE Spec2Model ----
(***************************************************************************)
(* A model of the LM Studio n8n node (gslopez/n8n-lmstudio-nodes):         *)
(*   - LmStudioSimpleMessage.execute, the credential-based variant         *)
(*     (src/unnamed/part_001, lines 426-639);                              *)
(*   - methods.loadOptions.getModels (src/unnamed/part_001, lines 386-422).*)
(*                                                                         *)
(* JavaScript strings that the code inspects (trim, JSON.parse,            *)
(* localeCompare) are sequences of one-character strings.  JavaScript      *)
(* values are records tagged by their type in the field t.  Messages of    *)
(* errors are sequences of fragments: the pieces of the template literal   *)
(* that builds them, so that "starts with" and "contains" can be stated.   *)
(***************************************************************************)
EXTENDS Integers, Sequences, FiniteSets, TLC

VARIABLES
    items,          \* this.getInputData(): the input items
    continueOnFail, \* this.continueOnFail(): the node's setting
    credentials,    \* the resolved lmStudioApi credentials
    pc,             \* where execute is: idle, loop, await, returned, thrown
    itemIndex,      \* the loop counter of execute (0-based, as in the code)
    params,         \* the parameters read for the current item
    hasJsonSchema,  \* the local of that name, for the current item
    requests,       \* every call of this.helpers.httpRequest, in order
    answer,         \* what the last httpRequest resolved or rejected with
    returnData,     \* the output rows pushed so far
    output,         \* <<returnData>> once execute has returned, <<>> before
    thrown,         \* the error execute threw, NoError before
    modelsPc,       \* where getModels is: idle, await, returned
    modelsAnswer,   \* what the GET of getModels resolved or rejected with
    options         \* what getModels returned

vars == <<items, continueOnFail, credentials, pc, itemIndex, params,
          hasJsonSchema, requests, answer, returnData, output, thrown,
          modelsPc, modelsAnswer, options>>

executeVars == <<items, continueOnFail, credentials, pc, itemIndex, params,
                 hasJsonSchema, requests, answer, returnData, output, thrown>>

modelsVars == <<modelsPc, modelsAnswer, options>>

(***************************************************************************)
(* Bounds of the model.                                                    *)
(***************************************************************************)
MaxItems == 2

MaxModels == 3

\* The most slashes a host URL ends with.
MaxSlashes == 2

\* The most iterations of the item loop of the hostName variant that are
\* followed.
MaxRuns == 3

(***************************************************************************)
(* JavaScript values.                                                      *)
(***************************************************************************)
JsUndefined == [t |-> "undefined"]

JsNull == [t |-> "null"]

JsBool(b) == [t |-> "boolean", b |-> b]

JsNum(n) == [t |-> "number", n |-> n]

JsStr(chars) == [t |-> "string", s |-> chars]

\* An object: its members in insertion order, each [k |-> key, v |-> value].
JsObj(members) == [t |-> "object", m |-> members]

JsArr(elements) == [t |-> "array", e |-> elements]

\* typeof v, for the values modelled.
TypeOf(v) == IF v.t \in {"null", "array"} THEN "object" ELSE v.t

\* ToBoolean(v): the values JavaScript treats as false are undefined, null,
\* false, 0 and the empty string.
Truthy(v) ==
    CASE v.t \in {"undefined", "null"} -> FALSE
      [] v.t = "boolean" -> v.b
      [] v.t = "number" -> v.n # 0
      [] v.t = "string" -> v.s # <<>>
      [] OTHER -> TRUE

WhiteSpace == {" ", "\t", "\n", "\r"}

RECURSIVE TrimStart(_)
TrimStart(s) ==
    IF s # <<>> /\ Head(s) \in WhiteSpace THEN TrimStart(Tail(s)) ELSE s

RECURSIVE TrimEnd(_)
TrimEnd(s) ==
    IF s # <<>> /\ s[Len(s)] \in WhiteSpace
    THEN TrimEnd(SubSeq(s, 1, Len(s) - 1))
    ELSE s

\* String.prototype.trim
Trim(s) == TrimEnd(TrimStart(s))

\* The characters of s as one string (a fragment of a message).
RECURSIVE Text(_)
Text(s) == IF s = <<>> THEN "" ELSE Head(s) \o Text(Tail(s))

(***************************************************************************)
(* JSON.parse, for the subset of JSON made of objects, arrays, strings     *)
(* (with the escapes \" \\ \/), non-negative integers, null, true, false.  *)
(* A parse step answers [ok, v, i]: whether it succeeded, the value, and   *)
(* the position after it (or the position of the offending character).     *)
(***************************************************************************)
Digits == {"0", "1", "2", "3", "4", "5", "6", "7", "8", "9"}

DigitVal(c) ==
    CASE c = "0" -> 0 [] c = "1" -> 1 [] c = "2" -> 2 [] c = "3" -> 3
      [] c = "4" -> 4 [] c = "5" -> 5 [] c = "6" -> 6 [] c = "7" -> 7
      [] c = "8" -> 8 [] c = "9" -> 9

ParseOk(v, i) == [ok |-> TRUE, v |-> v, i |-> i]

ParseFail(i) == [ok |-> FALSE, v |-> JsUndefined, i |-> i]

RECURSIVE SkipWs(_, _)
SkipWs(s, i) ==
    IF i <= Len(s) /\ s[i] \in WhiteSpace THEN SkipWs(s, i + 1) ELSE i

RECURSIVE ParseDigits(_, _, _)
ParseDigits(s, i, acc) ==
    IF i <= Len(s) /\ s[i] \in Digits
    THEN ParseDigits(s, i + 1, acc * 10 + DigitVal(s[i]))
    ELSE ParseOk(JsNum(acc), i)

\* A number: 0, or digits not starting with 0.
ParseNumber(s, i) ==
    IF s[i] = "0" THEN ParseOk(JsNum(0), i + 1) ELSE ParseDigits(s, i, 0)

\* The rest of a string literal whose opening quote is before position i.
RECURSIVE ScanString(_, _, _)
ScanString(s, i, acc) ==
    IF i > Len(s) THEN ParseFail(i)
    ELSE IF s[i] = "\"" THEN ParseOk(JsStr(acc), i + 1)
    ELSE IF s[i] \in {"\t", "\n", "\r"} THEN ParseFail(i)
    ELSE IF s[i] = "\\"
         THEN IF i + 1 <= Len(s) /\ s[i + 1] \in {"\"", "\\", "/"}
              THEN ScanString(s, i + 2, Append(acc, s[i + 1]))
              ELSE ParseFail(i + 1)
    ELSE ScanString(s, i + 1, Append(acc, s[i]))

ParseLiteral(s, i, lit, v) ==
    IF i + Len(lit) - 1 <= Len(s) /\ SubSeq(s, i, i + Len(lit) - 1) = lit
    THEN ParseOk(v, i + Len(lit))
    ELSE ParseFail(i)

\* members with key k set to v: a repeated key keeps its place and takes the
\* last value.
ObjSet(members, k, v) ==
    IF \E j \in 1..Len(members) : members[j].k = k
    THEN [j \in 1..Len(members) |->
            IF members[j].k = k THEN [k |-> k, v |-> v] ELSE members[j]]
    ELSE Append(members, [k |-> k, v |-> v])

RECURSIVE ParseValue(_, _)
RECURSIVE ParseMembers(_, _, _)
RECURSIVE ParseElements(_, _, _)

\* After a member's value: "}" ends the object, "," starts the next member.
MembersEnd(s, d, acc) ==
    IF d > Len(s) THEN ParseFail(d)
    ELSE IF s[d] = "}" THEN ParseOk(JsObj(acc), d + 1)
    ELSE IF s[d] = "," THEN ParseMembers(s, d + 1, acc)
    ELSE ParseFail(d)

MemberValue(s, key, val, acc) ==
    IF ~val.ok THEN val
    ELSE MembersEnd(s, SkipWs(s, val.i), ObjSet(acc, key.v.s, val.v))

MemberColon(s, key, c, acc) ==
    IF c > Len(s) \/ s[c] # ":" THEN ParseFail(c)
    ELSE MemberValue(s, key, ParseValue(s, c + 1), acc)

MemberKey(s, key, acc) ==
    IF ~key.ok THEN key ELSE MemberColon(s, key, SkipWs(s, key.i), acc)

MemberStart(s, i, acc) ==
    IF i > Len(s) \/ s[i] # "\"" THEN ParseFail(i)
    ELSE MemberKey(s, ScanString(s, i + 1, <<>>), acc)

\* The members of an object from position i0 on, acc being those before.
ParseMembers(s, i0, acc) == MemberStart(s, SkipWs(s, i0), acc)

\* After an element: "]" ends the array, "," starts the next element.
ElementsEnd(s, d, acc) ==
    IF d > Len(s) THEN ParseFail(d)
    ELSE IF s[d] = "]" THEN ParseOk(JsArr(acc), d + 1)
    ELSE IF s[d] = "," THEN ParseElements(s, d + 1, acc)
    ELSE ParseFail(d)

ElementValue(s, val, acc) ==
    IF ~val.ok THEN val
    ELSE ElementsEnd(s, SkipWs(s, val.i), Append(acc, val.v))

\* The elements of an array from position i0 on, acc being those before.
ParseElements(s, i0, acc) == ElementValue(s, ParseValue(s, i0), acc)

ObjectOpen(s, j) ==
    IF j <= Len(s) /\ s[j] = "}"
    THEN ParseOk(JsObj(<<>>), j + 1)
    ELSE ParseMembers(s, j, <<>>)

ArrayOpen(s, j) ==
    IF j <= Len(s) /\ s[j] = "]"
    THEN ParseOk(JsArr(<<>>), j + 1)
    ELSE ParseElements(s, j, <<>>)

ValueAt(s, i) ==
    IF i > Len(s) THEN ParseFail(i)
    ELSE CASE s[i] = "{" -> ObjectOpen(s, SkipWs(s, i + 1))
           [] s[i] = "[" -> ArrayOpen(s, SkipWs(s, i + 1))
           [] s[i] = "\"" -> ScanString(s, i + 1, <<>>)
           [] s[i] \in Digits -> ParseNumber(s, i)
           [] s[i] = "n" -> ParseLiteral(s, i, <<"n", "u", "l", "l">>, JsNull)
           [] s[i] = "t" ->
                ParseLiteral(s, i, <<"t", "r", "u", "e">>, JsBool(TRUE))
           [] s[i] = "f" ->
                ParseLiteral(s, i, <<"f", "a", "l", "s", "e">>, JsBool(FALSE))
           [] OTHER -> ParseFail(i)

\* One JSON value from position i0 on, after white space.
ParseValue(s, i0) == ValueAt(s, SkipWs(s, i0))

\* The message of the SyntaxError JSON.parse throws at position i of s.
SyntaxErrorMessage(s, i) ==
    IF i > Len(s)
    THEN <<"Unexpected end of JSON input">>
    ELSE <<"Unexpected token ", s[i], " in JSON at position ", ToString(i - 1)>>

\* The whole text must be one value, white space around it allowed.
ParseEnd(s, r, e) ==
    IF r.ok /\ e > Len(s)
    THEN [ok |-> TRUE, v |-> r.v, message |-> <<>>]
    ELSE [ok |-> FALSE, v |-> JsUndefined,
          message |-> SyntaxErrorMessage(s, e)]

ParseTop(s, r) == ParseEnd(s, r, IF r.ok THEN SkipWs(s, r.i) ELSE r.i)

\* JSON.parse(s): [ok |-> TRUE, v |-> the value], or [ok |-> FALSE,
\* message |-> the SyntaxError's message].
JSONparse(s) == ParseTop(s, ParseValue(s, 1))

\* Object.keys(v).length: the own enumerable keys of an object, the indices
\* of an array or of a string, none for a number or a boolean; a TypeError
\* for null and undefined.
ObjectKeysLength(v) ==
    CASE v.t = "object" -> [ok |-> TRUE, n |-> Len(v.m), message |-> <<>>]
      [] v.t = "array" -> [ok |-> TRUE, n |-> Len(v.e), message |-> <<>>]
      [] v.t = "string" -> [ok |-> TRUE, n |-> Len(v.s), message |-> <<>>]
      [] v.t \in {"number", "boolean"} ->
            [ok |-> TRUE, n |-> 0, message |-> <<>>]
      [] OTHER ->
            [ok |-> FALSE, n |-> 0,
             message |-> <<"Cannot convert undefined or null to object">>]

(***************************************************************************)
(* buildUrl (part_001, lines 269-276).                                     *)
(***************************************************************************)
StartsWith(s, prefix) ==
    Len(s) >= Len(prefix) /\ SubSeq(s, 1, Len(prefix)) = prefix

\* base.replace(/\/+$/, '')
RECURSIVE StripTrailingSlashes(_)
StripTrailingSlashes(s) ==
    IF s # <<>> /\ s[Len(s)] = "/"
    THEN StripTrailingSlashes(SubSeq(s, 1, Len(s) - 1))
    ELSE s

HttpScheme == <<"h", "t", "t", "p", ":", "/", "/">>

HttpsScheme == <<"h", "t", "t", "p", "s", ":", "/", "/">>

\* buildUrl, were the trailing slashes of the base kept.
buildUrlKeepingSlashes(hostUrl, path) ==
    LET base == IF ~StartsWith(hostUrl, HttpScheme)
                   /\ ~StartsWith(hostUrl, HttpsScheme)
                THEN HttpScheme \o hostUrl
                ELSE hostUrl
    IN  base \o path

buildUrl(hostUrl, path) ==
    LET base == IF ~StartsWith(hostUrl, HttpScheme)
                   /\ ~StartsWith(hostUrl, HttpsScheme)
                THEN HttpScheme \o hostUrl
                ELSE hostUrl
    IN  StripTrailingSlashes(base) \o path

ChatPath ==
    <<"/", "v", "1", "/", "c", "h", "a", "t", "/",
      "c", "o", "m", "p", "l", "e", "t", "i", "o", "n", "s">>

ModelsPath ==
    <<"/", "a", "p", "i", "/", "v", "0", "/", "m", "o", "d", "e", "l", "s">>

(***************************************************************************)
(* Errors.  A NodeOperationError or NodeApiError built with { itemIndex }  *)
(* carries the index; any other error has no itemIndex field.              *)
(***************************************************************************)
NoError == [cls |-> "none"]

NodeOperationError(message, index) ==
    [cls |-> "NodeOperationError", message |-> message, itemIndex |-> index]

NodeApiError(message, index) ==
    [cls |-> "NodeApiError", message |-> message, itemIndex |-> index]

OtherError(cls, message) == [cls |-> cls, message |-> message]

IsNodeError(error) == error.cls \in {"NodeOperationError", "NodeApiError"}

HasItemIndex(error) == "itemIndex" \in DOMAIN error

\* str.startsWith / str.includes on a message given as fragments.
MessageStartsWith(message, fragment) ==
    message # <<>> /\ message[1] = fragment

MessageIncludes(message, fragment) ==
    \E k \in 1..Len(message) : message[k] = fragment

\* Every fragment of part occurs in message as one run.
MessageContains(message, part) ==
    \E k \in 0..(Len(message) - Len(part)) :
        SubSeq(message, k + 1, k + Len(part)) = part

(***************************************************************************)
(* The request of one item (part_001, lines 455-526).                      *)
(***************************************************************************)
MsPerSecond == 1000

\* BaseRequestBody, were max_tokens sent for every number.
BaseRequestBodyAnyNumber(p) ==
    LET base == [model |-> p.modelName,
                 messages |-> <<[role |-> "user", content |-> p.message]>>,
                 temperature |-> p.temperature]
    IN  IF TypeOf(p.maxTokens) = "number"
        THEN base @@ [max_tokens |-> p.maxTokens.n]
        ELSE base

\* Lines 465-474: the body, with max_tokens only for a number above 0.
BaseRequestBody(p) ==
    LET base == [model |-> p.modelName,
                 messages |-> <<[role |-> "user", content |-> p.message]>>,
                 temperature |-> p.temperature]
    IN  IF Truthy(p.maxTokens) /\ TypeOf(p.maxTokens) = "number"
           /\ p.maxTokens.n > 0
        THEN base @@ [max_tokens |-> p.maxTokens.n]
        ELSE base

\* Lines 485-492.
ResponseFormat(parsedSchema) ==
    [type |-> "json_schema",
     json_schema |-> [name |-> "outputSchema",
                      strict |-> TRUE,
                      schema |-> parsedSchema]]

InvalidSchemaError(message, index) ==
    NodeOperationError(<<"Invalid JSON Schema: ">> \o message, index)

\* Lines 484-494: a parsed schema is attached when it has a key.
AttachParsed(body, parsedSchema, keys, index) ==
    IF ~keys.ok
    THEN [ok |-> FALSE, hasJsonSchema |-> FALSE, body |-> body,
          error |-> InvalidSchemaError(keys.message, index)]
    ELSE IF keys.n > 0
    THEN [ok |-> TRUE, hasJsonSchema |-> TRUE,
          body |-> body @@ [response_format |-> ResponseFormat(parsedSchema)],
          error |-> NoError]
    ELSE [ok |-> TRUE, hasJsonSchema |-> FALSE, body |-> body,
          error |-> NoError]

\* AttachParseResult, were a schema that does not parse taken as no schema.
AttachParseResultLenient(body, parsed, index) ==
    IF ~parsed.ok
    THEN [ok |-> TRUE, hasJsonSchema |-> FALSE, body |-> body,
          error |-> NoError]
    ELSE AttachParsed(body, parsed.v, ObjectKeysLength(parsed.v), index)

\* Lines 479-501: the try block around JSON.parse and its catch.
AttachParseResult(body, parsed, index) ==
    IF ~parsed.ok
    THEN [ok |-> FALSE, hasJsonSchema |-> FALSE, body |-> body,
          error |-> InvalidSchemaError(parsed.message, index)]
    ELSE AttachParsed(body, parsed.v, ObjectKeysLength(parsed.v), index)

\* Lines 476-502: [ok, hasJsonSchema, body, error].
AttachSchema(body, jsonSchemaStr, index) ==
    IF Truthy(jsonSchemaStr) /\ TypeOf(jsonSchemaStr) = "string"
       /\ Truthy(JsStr(Trim(jsonSchemaStr.s)))
    THEN AttachParseResult(body, JSONparse(jsonSchemaStr.s), index)
    ELSE [ok |-> TRUE, hasJsonSchema |-> FALSE, body |-> body,
          error |-> NoError]

\* RequestHeaders, were the Authorization header always sent.
RequestHeadersAlwaysBearer(apiKey) ==
    "Content-Type" :> "application/json"
        @@ ("Authorization" :> ("Bearer " \o apiKey))

\* Lines 507-513.
RequestHeaders(apiKey) ==
    LET headers == "Content-Type" :> "application/json" IN
    IF apiKey # ""
    THEN headers @@ ("Authorization" :> ("Bearer " \o apiKey))
    ELSE headers

\* HttpRequestOptions, were the timeout handed over in seconds.
HttpRequestOptionsInSeconds(body, timeout, creds, index) ==
    LET opts == [itemIndex |-> index,
                 method |-> "POST",
                 url |-> Text(buildUrl(creds.hostUrl, ChatPath)),
                 headers |-> RequestHeaders(creds.apiKey),
                 body |-> body,
                 json |-> TRUE]
    IN  IF timeout > 0
        THEN opts @@ [timeout |-> timeout]
        ELSE opts

\* Lines 518-526: the options handed to this.helpers.httpRequest; the field
\* timeout is absent when the code passes undefined.
HttpRequestOptions(body, timeout, creds, index) ==
    LET opts == [itemIndex |-> index,
                 method |-> "POST",
                 url |-> Text(buildUrl(creds.hostUrl, ChatPath)),
                 headers |-> RequestHeaders(creds.apiKey),
                 body |-> body,
                 json |-> TRUE]
    IN  IF timeout > 0
        THEN opts @@ [timeout |-> timeout * MsPerSecond]
        ELSE opts

(***************************************************************************)
(* The transport error of one item (part_001, lines 527-558).              *)
(***************************************************************************)
TimeoutCodes == {"ETIMEDOUT", "ESOCKETTIMEDOUT", "ECONNABORTED"}

\* ErrorCode, were the code of the cause not looked at.
ErrorCodeOfErrorOnly(err) ==
    IF "code" \in DOMAIN err THEN err.code ELSE "undefined"

\* err.code ?? err.cause?.code; "undefined" stands for undefined.
ErrorCode(err) ==
    IF "code" \in DOMAIN err THEN err.code
    ELSE IF "cause" \in DOMAIN err /\ "code" \in DOMAIN err.cause
         THEN err.cause.code
         ELSE "undefined"

IsTimeout(err) == ErrorCode(err) \in TimeoutCodes

TimeoutMessage(timeout) ==
    <<"Request timed out after ", ToString(timeout),
      " seconds. Consider increasing the timeout for larger models.">>

TransportError(err, timeout, index) ==
    IF IsTimeout(err)
    THEN NodeOperationError(TimeoutMessage(timeout), index)
    ELSE NodeApiError(<<"LM Studio request failed: ">> \o err.message, index)

(***************************************************************************)
(* The response of one item (part_001, lines 567-620).                     *)
(***************************************************************************)
\* response.choices?.[0]?.message
FirstMessage(response) ==
    IF ~Truthy(response.choices) \/ response.choices.e = <<>>
    THEN JsUndefined
    ELSE IF ~Truthy(response.choices.e[1])
    THEN JsUndefined
    ELSE response.choices.e[1].message

\* Metadata, were finish_reason read from the top level of the response.
MetadataFromTopLevel(response) ==
    [model |-> response.model,
     usage |-> response.usage,
     created |-> response.created,
     id |-> response.id,
     finish_reason |-> IF "finish_reason" \in DOMAIN response
                       THEN response.finish_reason
                       ELSE "undefined"]

\* Lines 586-592.
Metadata(response) ==
    [model |-> response.model,
     usage |-> response.usage,
     created |-> response.created,
     id |-> response.id,
     finish_reason |-> response.choices.e[1].finish_reason]

\* Lines 617-620.
SuccessRow(responseValue, metadata, index) ==
    [json |-> [response |-> responseValue, _metadata |-> metadata],
     pairedItem |-> [item |-> index]]

ParseFailedMessage(parseMessage, content) ==
    <<"Failed to parse response as JSON: ">> \o parseMessage
        \o <<". Content: ", Text(content.s)>>

\* ParsedContent, were the raw content left out of the message.
ParsedContentWithoutRaw(parsed, content, index) ==
    IF parsed.ok
    THEN [ok |-> TRUE, value |-> parsed.v, error |-> NoError]
    ELSE [ok |-> FALSE, value |-> JsUndefined,
          error |-> NodeOperationError(
                      <<"Failed to parse response as JSON: ">>
                          \o parsed.message, index)]

\* Lines 597-609: the try block around JSON.parse(content) and its catch.
ParsedContent(parsed, content, index) ==
    IF parsed.ok
    THEN [ok |-> TRUE, value |-> parsed.v, error |-> NoError]
    ELSE [ok |-> FALSE, value |-> JsUndefined,
          error |-> NodeOperationError(
                      ParseFailedMessage(parsed.message, content), index)]

\* ResponseData, were the content parsed whether or not a schema was sent.
ResponseDataAlwaysParsed(content, schemaRequested, index) ==
    ParsedContent(JSONparse(content.s), content, index)

\* ResponseData, were the content never parsed.
ResponseDataNeverParsed(content, schemaRequested, index) ==
    [ok |-> TRUE, value |-> content, error |-> NoError]

\* Lines 594-615: the value of json.response, or the ContentParseFailed
\* error.
ResponseData(content, schemaRequested, index) ==
    IF schemaRequested
    THEN ParsedContent(JSONparse(content.s), content, index)
    ELSE [ok |-> TRUE, value |-> content, error |-> NoError]

\* Lines 611-620.
RowOf(data, response, index) ==
    IF data.ok
    THEN [ok |-> TRUE,
          row |-> SuccessRow(data.value, Metadata(response), index),
          error |-> NoError]
    ELSE [ok |-> FALSE, row |-> <<>>, error |-> data.error]

\* Lines 576-620.
MapContent(content, response, schemaRequested, index) ==
    IF ~Truthy(content)
    THEN [ok |-> FALSE, row |-> <<>>,
          error |-> NodeOperationError(
                      <<"No content in response from LM Studio">>, index)]
    ELSE RowOf(ResponseData(content, schemaRequested, index), response, index)

\* Lines 567-576.
MapMessage(message, response, schemaRequested, index) ==
    IF ~Truthy(message)
    THEN [ok |-> FALSE, row |-> <<>>,
          error |-> NodeOperationError(
                      <<"Invalid response structure from LM Studio">>, index)]
    ELSE MapContent(message.content, response, schemaRequested, index)

\* Lines 567-620: [ok, row, error].  Reading response.choices of a null
\* body throws a TypeError.
MapResponse(response, schemaRequested, index) ==
    IF response.t \in {"null", "undefined"}
    THEN [ok |-> FALSE, row |-> <<>>,
          error |-> OtherError("TypeError",
                      <<"Cannot read properties of ", response.t,
                        " (reading 'choices')">>)]
    ELSE MapMessage(FirstMessage(response), response, schemaRequested, index)

(***************************************************************************)
(* The catch block of the item loop (part_001, lines 621-635).             *)
(***************************************************************************)
\* ErrorRow, were the message of the error left out.
ErrorRowWithoutMessage(error, index) ==
    [json |-> [error |-> <<>>], pairedItem |-> [item |-> index]]

ErrorRow(error, index) ==
    [json |-> [error |-> error.message], pairedItem |-> [item |-> index]]

\* Rethrown, were every error thrown again as it was caught.
RethrownUnchanged(error, index) == error

\* What execute throws for an error caught at item index.
Rethrown(error, index) ==
    IF IsNodeError(error)
    THEN error
    ELSE NodeOperationError(error.message, index)

(***************************************************************************)
(* The inputs of execute: what the host and the server may hand to it.     *)
(***************************************************************************)
LocalHost ==
    <<"h", "t", "t", "p", ":", "/", "/", "l", "o", "c", "a", "l",
      "h", "o", "s", "t", ":", "1", "2", "3", "4">>

ApiKeys == {"", "sk-test-123"}

\* The n input items, each with a json of its own.
InputItems(n) ==
    [k \in 1..n |-> [json |-> JsObj(<<[k |-> <<"n">>, v |-> JsNum(k)]>>)]]

EmptySchema == JsStr(<<"{", "}">>)

ObjectSchema == JsStr(<<"{", "\"", "a", "\"", ":", "1", "}">>)

\* Values of the jsonSchema parameter: '', blank, '{}', an object, an array,
\* a number, null, text that is not JSON, and two values that are not
\* strings (null, an object).
SchemaSamples ==
    { JsStr(<<>>),
      JsStr(<<" ", "\n">>),
      EmptySchema,
      ObjectSchema,
      JsStr(<<"[", "1", "]">>),
      JsStr(<<"7">>),
      JsStr(<<"n", "u", "l", "l">>),
      JsStr(<<"{", "b">>),
      JsNull,
      JsObj(<<[k |-> <<"a">>, v |-> JsNum(1)]>>) }

\* The parameters of the unit tests' mock (part_000, lines 33-40), with the
\* temperature in hundredths.
DefaultParams ==
    [modelName |-> "test-model",
     message |-> "Hello",
     temperature |-> 70,
     maxTokens |-> JsStr(<<>>),
     timeout |-> 0,
     jsonSchema |-> EmptySchema]

\* The parameter values the getter may return for an item.
ParamSamples ==
    {[DefaultParams EXCEPT !.jsonSchema = s] : s \in SchemaSamples}
        \cup {[DefaultParams EXCEPT !.timeout = 30]}
        \cup {[DefaultParams EXCEPT !.maxTokens = JsNum(0)]}
        \cup {[DefaultParams EXCEPT !.modelName = "other-model",
                                    !.message = "Bye",
                                    !.temperature = 0,
                                    !.maxTokens = JsNum(50)]}

\* The getter failing: the host throws an error of its own (an
\* ExpressionError or ApplicationError), not a node error.
GetterFailure ==
    [getterError |-> OtherError("Error", <<"Could not get parameter">>)]

GetterFailed(p) == "getterError" \in DOMAIN p

NoParams == [none |-> TRUE]

\* chatResponse of the unit tests (part_000, lines 18-27); content may be
\* missing (undefined).
ChatResponse(content, model) ==
    [t |-> "object",
     choices |-> JsArr(<<[t |-> "object",
                          message |-> [t |-> "object", content |-> content],
                          finish_reason |-> "stop"]>>),
     model |-> model,
     usage |-> [prompt_tokens |-> 5, completion_tokens |-> 10],
     created |-> 1700000000,
     id |-> "chatcmpl-abc"]

ContentSamples ==
    { JsUndefined,
      JsStr(<<>>),
      JsStr(<<"h", "i">>),
      JsStr(<<"{", "\"", "a", "\"", ":", "1", "}">>) }

\* Bodies the POST may resolve with: null, an object without choices, with
\* an empty choices, with a first choice that has no message, and chat
\* responses.
ResponseSamples ==
    { JsNull,
      [ChatResponse(JsUndefined, "test-model") EXCEPT !.choices = JsUndefined],
      [ChatResponse(JsUndefined, "test-model") EXCEPT !.choices = JsArr(<<>>)],
      [ChatResponse(JsUndefined, "test-model") EXCEPT
          !.choices = JsArr(<<[t |-> "object", message |-> JsUndefined,
                               finish_reason |-> "stop"]>>)] }
        \cup {ChatResponse(c, "test-model") : c \in ContentSamples}
        \cup {[ChatResponse(JsStr(<<"{", "\"", "a", "\"", ":", "1", "}">>),
                             "other-model")
                EXCEPT !.usage = [prompt_tokens |-> 7,
                                  completion_tokens |-> 50],
                       !.created = 1700000001,
                       !.id = "chatcmpl-xyz",
                       !.choices = JsArr(<<
                            [t |-> "object",
                             message |->
                                [t |-> "object",
                                 content |-> JsStr(<<"{", "\"", "a", "\"",
                                                     ":", "1", "}">>)],
                             finish_reason |-> "length"]>>)]}

\* Errors the POST may reject with: with or without a code of its own, with
\* or without a cause, whose code may be absent.
TransportErrorSamples ==
    LET plain == [message |-> <<"Server down">>] IN
    {plain}
        \cup {plain @@ [code |-> c] :
                c \in TimeoutCodes \cup {"ECONNREFUSED"}}
        \cup {plain @@ [cause |-> [code |-> c]] :
                c \in TimeoutCodes \cup {"ECONNREFUSED"}}
        \cup {plain @@ [cause |-> [name |-> "Error"]]}
        \cup {plain @@ [code |-> "ERR_BAD_REQUEST",
                        cause |-> [code |-> "ETIMEDOUT"]],
              plain @@ [code |-> "ETIMEDOUT",
                        cause |-> [code |-> "ECONNREFUSED"]]}

\* Errors the POST rejects with when the cancel signal aborts it: an
\* AbortError, an error with the code ABORT_ERR (the two the hostName variant
\* tests for, part_002 line 275), and the CanceledError of the HTTP client.
AbortErrorSamples ==
    { [message |-> <<"The operation was aborted">>, name |-> "AbortError"],
      [message |-> <<"The operation was aborted">>, code |-> "ABORT_ERR"],
      [message |-> <<"canceled">>, name |-> "CanceledError",
       code |-> "ERR_CANCELED"] }

NoAnswer == [kind |-> "none"]

(***************************************************************************)
(* execute (part_001, lines 426-639).                                      *)
(***************************************************************************)
ModelsIdle ==
    /\ modelsPc = "idle"
    /\ modelsAnswer = NoAnswer
    /\ options = <<>>

Init ==
    /\ \E n \in 0..MaxItems : items = InputItems(n)
    /\ continueOnFail \in BOOLEAN
    /\ credentials \in {[hostUrl |-> LocalHost, apiKey |-> k] : k \in ApiKeys}
    /\ pc = "idle"
    /\ itemIndex = 0
    /\ params = NoParams
    /\ hasJsonSchema = FALSE
    /\ requests = <<>>
    /\ answer = NoAnswer
    /\ returnData = <<>>
    /\ output = <<>>
    /\ thrown = NoError
    /\ ModelsIdle

\* The end of an iteration: itemIndex++, then the loop test of line 436 and,
\* when it fails, the return of line 638.
NextItem ==
    /\ itemIndex' = itemIndex + 1
    /\ IF itemIndex + 1 < Len(items)
       THEN pc' = "loop" /\ output' = output
       ELSE pc' = "returned" /\ output' = <<returnData'>>

\* Push, were the json of the row also written into the input item.
PushIntoInput(row) ==
    /\ returnData' = Append(returnData, row)
    /\ items' = [items EXCEPT ![itemIndex + 1].json = row.json]
    /\ thrown' = thrown
    /\ NextItem

\* Lines 617-620, then the next iteration; the input items are not written.
Push(row) ==
    /\ returnData' = Append(returnData, row)
    /\ items' = items
    /\ thrown' = thrown
    /\ NextItem

\* Catch, were no row pushed for a failed item.
CatchWithoutRow(error) ==
    IF continueOnFail
    THEN /\ returnData' = returnData
         /\ items' = items
         /\ thrown' = thrown
         /\ NextItem
    ELSE /\ thrown' = Rethrown(error, itemIndex)
         /\ pc' = "thrown"
         /\ UNCHANGED <<items, returnData, itemIndex, output>>

\* Lines 621-635.
Catch(error) ==
    IF continueOnFail
    THEN Push(ErrorRow(error, itemIndex))
    ELSE /\ thrown' = Rethrown(error, itemIndex)
         /\ pc' = "thrown"
         /\ UNCHANGED <<items, returnData, itemIndex, output>>

\* Lines 426-436: the call of execute, up to the first loop test.
Execute ==
    /\ pc = "idle"
    /\ IF Len(items) > 0
       THEN pc' = "loop" /\ output' = output
       ELSE pc' = "returned" /\ output' = <<returnData>>
    /\ UNCHANGED <<items, continueOnFail, credentials, itemIndex, params,
                   hasJsonSchema, requests, answer, returnData, thrown>>
    /\ UNCHANGED modelsVars

\* Send, were the request issued twice.
SendTwice(p, att) ==
    /\ hasJsonSchema' = att.hasJsonSchema
    /\ IF att.ok
       THEN /\ requests' = requests
                    \o <<HttpRequestOptions(att.body, p.timeout, credentials,
                                            itemIndex),
                         HttpRequestOptions(att.body, p.timeout, credentials,
                                            itemIndex)>>
            /\ pc' = "await"
            /\ UNCHANGED <<items, returnData, itemIndex, output, thrown>>
       ELSE /\ requests' = requests
            /\ Catch(att.error)

\* Send, were hasJsonSchema declared outside the loop and never reset.
SendKeepingFlag(p, att) ==
    /\ hasJsonSchema' = (att.hasJsonSchema \/ hasJsonSchema)
    /\ IF att.ok
       THEN /\ requests' = Append(requests,
                   HttpRequestOptions(att.body, p.timeout, credentials,
                                      itemIndex))
            /\ pc' = "await"
            /\ UNCHANGED <<items, returnData, itemIndex, output, thrown>>
       ELSE /\ requests' = requests
            /\ Catch(att.error)

\* Send, were the request not awaited and the loop moved on at once.
SendWithoutAwait(p, att) ==
    /\ hasJsonSchema' = att.hasJsonSchema
    /\ IF att.ok
       THEN /\ requests' = Append(requests,
                   HttpRequestOptions(att.body, p.timeout, credentials,
                                      itemIndex))
            /\ items' = items
            /\ returnData' = returnData
            /\ thrown' = thrown
            /\ NextItem
       ELSE /\ requests' = requests
            /\ Catch(att.error)

\* Lines 504-526: the request is issued and execute awaits it; or the
\* schema was rejected and the catch block runs.
Send(p, att) ==
    /\ hasJsonSchema' = att.hasJsonSchema
    /\ IF att.ok
       THEN /\ requests' = Append(requests,
                   HttpRequestOptions(att.body, p.timeout, credentials,
                                      itemIndex))
            /\ pc' = "await"
            /\ UNCHANGED <<items, returnData, itemIndex, output, thrown>>
       ELSE /\ requests' = requests
            /\ Catch(att.error)

\* Lines 437-502: the parameters are read, the body is built.
Prepare(p) ==
    IF GetterFailed(p)
    THEN /\ hasJsonSchema' = FALSE
         /\ requests' = requests
         /\ Catch(p.getterError)
    ELSE Send(p, AttachSchema(BaseRequestBody(p), p.jsonSchema, itemIndex))

\* Lines 437-526: one iteration up to the await of httpRequest, or to the
\* catch block when a parameter cannot be read or the schema is rejected.
BeginItem ==
    /\ pc = "loop"
    /\ \E p \in ParamSamples \cup {GetterFailure} :
        /\ params' = p
        /\ answer' = NoAnswer
        /\ Prepare(p)
    /\ UNCHANGED <<continueOnFail, credentials>>
    /\ UNCHANGED modelsVars

\* Lines 617-635: the row is pushed, or the catch block runs.
Settle(m) == IF m.ok THEN Push(m.row) ELSE Catch(m.error)

\* Lines 526 and 560-620: httpRequest resolves.
HttpResolve ==
    /\ pc = "await"
    /\ \E r \in ResponseSamples :
        /\ answer' = [kind |-> "resolved", response |-> r]
        /\ Settle(MapResponse(r, hasJsonSchema, itemIndex))
    /\ UNCHANGED <<continueOnFail, credentials, params, hasJsonSchema,
                   requests>>
    /\ UNCHANGED modelsVars

\* Lines 527-558: httpRequest rejects.
HttpReject ==
    /\ pc = "await"
    /\ \E e \in TransportErrorSamples :
        /\ answer' = [kind |-> "rejected", error |-> e]
        /\ Catch(TransportError(e, params.timeout, itemIndex))
    /\ UNCHANGED <<continueOnFail, credentials, params, hasJsonSchema,
                   requests>>
    /\ UNCHANGED modelsVars

\* Lines 505 and 525-558: the signal of getExecutionCancelSignal aborts the
\* request in flight, and httpRequest rejects.
HttpAbort ==
    /\ pc = "await"
    /\ \E e \in AbortErrorSamples :
        /\ answer' = [kind |-> "rejected", error |-> e]
        /\ Catch(TransportError(e, params.timeout, itemIndex))
    /\ UNCHANGED <<continueOnFail, credentials, params, hasJsonSchema,
                   requests>>
    /\ UNCHANGED modelsVars

Next ==
    \/ Execute
    \/ BeginItem
    \/ HttpResolve
    \/ HttpReject
    \/ HttpAbort

Spec == Init /\ [][Next]_vars

(***************************************************************************)
(* String.prototype.localeCompare, as the root collation orders the        *)
(* characters of model names: white space and punctuation before digits,   *)
(* digits before letters, letters by the alphabet whatever their case; two *)
(* names with the same letters are ordered by case, lower case first.      *)
(***************************************************************************)
Punctuation == <<" ", "_", "-", ".", "(", ")">>

LowerCase ==
    <<"a", "b", "c", "d", "e", "f", "g", "h", "i", "j", "k", "l", "m",
      "n", "o", "p", "q", "r", "s", "t", "u", "v", "w", "x", "y", "z">>

UpperCase ==
    <<"A", "B", "C", "D", "E", "F", "G", "H", "I", "J", "K", "L", "M",
      "N", "O", "P", "Q", "R", "S", "T", "U", "V", "W", "X", "Y", "Z">>

Range(seq) == {seq[k] : k \in DOMAIN seq}

IndexOf(seq, c) == CHOOSE k \in DOMAIN seq : seq[k] = c

PrimaryWeight(c) ==
    CASE c \in Range(Punctuation) -> IndexOf(Punctuation, c)
      [] c \in Digits -> Len(Punctuation) + 1 + DigitVal(c)
      [] c \in Range(LowerCase) ->
            Len(Punctuation) + 10 + IndexOf(LowerCase, c)
      [] c \in Range(UpperCase) ->
            Len(Punctuation) + 10 + IndexOf(UpperCase, c)

CaseWeight(c) == IF c \in Range(UpperCase) THEN 1 ELSE 0

\* -1, 0 or 1: how the sequences of numbers x and y compare, item by item, a
\* proper prefix coming first.
RECURSIVE LexCompare(_, _)
LexCompare(x, y) ==
    IF x = <<>> /\ y = <<>> THEN 0
    ELSE IF x = <<>> THEN 0 - 1
    ELSE IF y = <<>> THEN 1
    ELSE IF Head(x) < Head(y) THEN 0 - 1
    ELSE IF Head(x) > Head(y) THEN 1
    ELSE LexCompare(Tail(x), Tail(y))

PrimaryKey(s) == [k \in DOMAIN s |-> PrimaryWeight(s[k])]

CaseKey(s) == [k \in DOMAIN s |-> CaseWeight(s[k])]

CompareThenCase(primary, a, b) ==
    IF primary # 0 THEN primary ELSE LexCompare(CaseKey(a), CaseKey(b))

LocaleCompare(a, b) ==
    CompareThenCase(LexCompare(PrimaryKey(a), PrimaryKey(b)), a, b)

(***************************************************************************)
(* getModels (part_001, lines 386-422).                                    *)
(***************************************************************************)
Llm == JsStr(<<"l", "l", "m">>)

Vlm == JsStr(<<"v", "l", "m">>)

Loaded == JsStr(<<"l", "o", "a", "d", "e", "d">>)

LoadedSuffix == <<" ", "(", "l", "o", "a", "d", "e", "d", ")">>

\* model.<field> of an entry of the data array: undefined for a field the
\* entry lacks and for an entry that is not an object.
Field(model, field) ==
    IF field \in DOMAIN model THEN model[field] ELSE JsUndefined

\* `${v}` for a string or undefined.
TemplateText(v) ==
    IF v.t = "string" THEN v.s
    ELSE <<"u", "n", "d", "e", "f", "i", "n", "e", "d">>

\* Line 400.
IsLlmOrVlm(model) ==
    Field(model, "type") = Llm \/ Field(model, "type") = Vlm

\* ModelOption, were the state of the model not shown in its name.
ModelOptionWithoutState(model) ==
    [name |-> TemplateText(Field(model, "id")),
     value |-> Field(model, "id"),
     description |->
        IF Truthy(Field(model, "quantization"))
        THEN JsStr(<<"Quantization: ">>
                    \o TemplateText(Field(model, "quantization")))
        ELSE JsUndefined]

\* Lines 401-407.
ModelOption(model) ==
    [name |-> TemplateText(Field(model, "id"))
                \o (IF Field(model, "state") = Loaded
                    THEN LoadedSuffix ELSE <<>>),
     value |-> Field(model, "id"),
     description |->
        IF Truthy(Field(model, "quantization"))
        THEN JsStr(<<"Quantization: ">>
                    \o TemplateText(Field(model, "quantization")))
        ELSE JsUndefined]

\* Array.prototype.filter with the test of line 400.
FilterModels(data) == SelectSeq(data, IsLlmOrVlm)

\* Array.prototype.map with the function of lines 401-407.
MapModels(models) == [k \in DOMAIN models |-> ModelOption(models[k])]

\* x put into the sorted list after every item that does not come after it.
RECURSIVE InsertByName(_, _)
InsertByName(sorted, x) ==
    IF sorted = <<>> THEN <<x>>
    ELSE IF LocaleCompare(x.name, Head(sorted).name) < 0
    THEN <<x>> \o sorted
    ELSE <<Head(sorted)>> \o InsertByName(Tail(sorted), x)

\* SortByName, were the list left in the order of the response.
SortByNameSkipped(opts) == opts

\* Lines 408-410: Array.prototype.sort, which is stable, with the comparator
\* a.name.localeCompare(b.name).
RECURSIVE SortByName(_)
SortByName(opts) ==
    IF opts = <<>> THEN <<>>
    ELSE InsertByName(SortByName(SubSeq(opts, 1, Len(opts) - 1)),
                      opts[Len(opts)])

NoModelsFound ==
    <<[name |-> <<"No Models Found">>, value |-> JsStr(<<>>)]>>

CouldNotConnect ==
    <<[name |-> <<"Could Not Connect to LM Studio">>, value |-> JsStr(<<>>)]>>

\* ModelsOrSentinel, were the test of line 412 left out.
ModelsOrEmpty(models) == models

\* Lines 412-415.
ModelsOrSentinel(models) ==
    IF Len(models) = 0 THEN NoModelsFound ELSE models

\* Lines 398-418, the try block after the await: the options it returns, or
\* the error it throws when the filter reads the type of a null entry.
ModelsTry(response) ==
    IF Truthy(response) /\ Truthy(Field(response, "data"))
       /\ Field(response, "data").t = "array"
    THEN IF \E k \in DOMAIN response.data.e :
                response.data.e[k].t \in {"null", "undefined"}
         THEN [ok |-> FALSE,
               error |-> OtherError("TypeError",
                            <<"Cannot read properties of null",
                              " (reading 'type')">>)]
         ELSE [ok |-> TRUE,
               options |-> ModelsOrSentinel(
                    SortByName(MapModels(FilterModels(response.data.e))))]
    ELSE [ok |-> TRUE, options |-> NoModelsFound]

\* ModelsCatch, were the error thrown on to the caller.
ModelsCatchRethrows(error) == [returned |-> FALSE, options |-> <<>>]

\* Lines 419-421: the catch, which binds no error and returns the sentinel.
ModelsCatch(error) == [returned |-> TRUE, options |-> CouldNotConnect]

\* Lines 391-421: how the try statement ends.
ModelsOutcome(try) ==
    IF try.ok
    THEN [returned |-> TRUE, options |-> try.options]
    ELSE ModelsCatch(try.error)

\* Lines 398-421: how getModels ends for a body the GET resolved with.
ModelsFromResponse(response) == ModelsOutcome(ModelsTry(response))

\* Lines 392-396: the options of the GET.
ModelsRequestOptions(creds) ==
    [method |-> "GET",
     url |-> Text(buildUrl(creds.hostUrl, ModelsPath)),
     json |-> TRUE]

\* An entry of the models list; a JsUndefined field is a missing one.
ModelEntry(id, type, state, quantization) ==
    [t |-> "object", id |-> JsStr(id), type |-> type, state |-> state,
     quantization |-> quantization]

NotLoaded == JsStr(<<"n", "o", "t", "-", "l", "o", "a", "d", "e", "d">>)

Asr == JsStr(<<"a", "s", "r">>)

Q4 == JsStr(<<"Q", "4">>)

\* Entries the server may list: the kinds of the unit test (part_000, lines
\* 164-169), names that differ by case, by a prefix and by the suffix only,
\* an entry without a type, one with an empty quantization, and null.
ModelSamples ==
    { ModelEntry(<<"b">>, Llm, NotLoaded, Q4),
      ModelEntry(<<"a">>, Llm, Loaded, JsUndefined),
      ModelEntry(<<"w">>, Asr, JsUndefined, JsUndefined),
      ModelEntry(<<"B">>, Vlm, NotLoaded, JsUndefined),
      ModelEntry(<<"a", "b">>, Llm, Loaded, JsUndefined),
      ModelEntry(<<"a">>, Vlm, NotLoaded, JsUndefined),
      ModelEntry(<<"a">>, JsUndefined, Loaded, JsUndefined),
      ModelEntry(<<"c">>, Llm, Loaded, JsStr(<<>>)),
      JsNull }

\* All lists of at most n entries.
ModelLists(n) ==
    UNION {[1..k -> ModelSamples] : k \in 0..n}

\* Bodies the GET may resolve with: nothing, null, an object without data,
\* with a data that is no array, and with a data array.
ModelsResponseSamples ==
    { JsUndefined,
      JsNull,
      [t |-> "object"],
      [t |-> "object", data |-> JsNull],
      [t |-> "object", data |-> JsStr(<<"x">>)],
      [t |-> "object", data |-> JsObj(<<>>)] }
        \cup {[t |-> "object", data |-> JsArr(list)] :
                list \in ModelLists(MaxModels)}

\* n slashes.
Slashes(n) == [k \in 1..n |-> "/"]

\* Values of the Host URL credential: with no scheme, with http:// or
\* https://, with a scheme of another kind or case, with and without a port,
\* ending with up to MaxSlashes slashes; the empty string included.
Hosts ==
    {LocalHost, <<>>}
        \cup {scheme \o host \o Slashes(n) :
                scheme \in {<<>>, HttpScheme, HttpsScheme,
                            <<"f", "t", "p", ":", "/", "/">>,
                            <<"H", "T", "T", "P", ":", "/", "/">>},
                host \in {<<>>, <<"h">>, <<"h", ":", "8">>},
                n \in 0..MaxSlashes}

InitModels ==
    /\ items = <<>>
    /\ continueOnFail = FALSE
    /\ credentials \in {[hostUrl |-> h, apiKey |-> k] :
                            h \in Hosts, k \in ApiKeys}
    /\ pc = "idle"
    /\ itemIndex = 0
    /\ params = NoParams
    /\ hasJsonSchema = FALSE
    /\ requests = <<>>
    /\ answer = NoAnswer
    /\ returnData = <<>>
    /\ output = <<>>
    /\ thrown = NoError
    /\ ModelsIdle

\* Lines 387-396: the call of getModels, up to the await of the GET.
GetModels ==
    /\ modelsPc = "idle"
    /\ modelsPc' = "await"
    /\ requests' = Append(requests, ModelsRequestOptions(credentials))
    /\ UNCHANGED <<items, continueOnFail, credentials, pc, itemIndex, params,
                   hasJsonSchema, answer, returnData, output, thrown,
                   modelsAnswer, options>>

\* getModels returns the options, or throws.
ModelsSettle(outcome) ==
    /\ modelsPc' = IF outcome.returned THEN "returned" ELSE "thrown"
    /\ options' = outcome.options

\* Lines 396-421: the GET resolves.
ModelsResolve ==
    /\ modelsPc = "await"
    /\ \E r \in ModelsResponseSamples :
        /\ modelsAnswer' = [kind |-> "resolved", response |-> r]
        /\ ModelsSettle(ModelsFromResponse(r))
    /\ UNCHANGED executeVars

\* Lines 396 and 419-421: the GET rejects, for a transport error or a status
\* that is not 2xx.
ModelsReject ==
    /\ modelsPc = "await"
    /\ \E e \in TransportErrorSamples :
        /\ modelsAnswer' = [kind |-> "rejected", error |-> e]
        /\ ModelsSettle(ModelsCatch(e))
    /\ UNCHANGED executeVars

NextModels ==
    \/ GetModels
    \/ ModelsResolve
    \/ ModelsReject

SpecModels == InitModels /\ [][NextModels]_vars

(***************************************************************************)
(* execute of the hostName variant (part_002, lines 167-362), which has no *)
(* credentials, reads the host from a parameter and writes its results     *)
(* into the array of input items.                                          *)
(***************************************************************************)
\* Lines 241-246: the protocol is detected, the path appended.
HostUrl(hostName) ==
    (IF ~StartsWith(hostName, HttpScheme) /\ ~StartsWith(hostName, HttpsScheme)
     THEN HttpScheme \o hostName
     ELSE hostName) \o ChatPath

\* Lines 254-265: the options handed to axios.
HostRequestOptions(body, p, index) ==
    [itemIndex |-> index,
     method |-> "POST",
     url |-> Text(HostUrl(p.hostName)),
     headers |-> ("Content-Type" :> "application/json"),
     body |-> body,
     timeout |-> IF p.timeout > 0 THEN p.timeout * MsPerSecond ELSE 0]

\* Line 275.
HostIsAborted(err) ==
    \/ "name" \in DOMAIN err /\ err.name = "AbortError"
    \/ "code" \in DOMAIN err /\ err.code = "ABORT_ERR"

\* Lines 274-304: the error has no response, so the details are empty.
HostTransportError(err, index) ==
    IF HostIsAborted(err)
    THEN NodeOperationError(
            <<"Request was cancelled (execution aborted or timed out)">>,
            index)
    ELSE NodeOperationError(<<"LM Studio request failed: ">> \o err.message,
                            index)

\* Lines 325-339: the json written into the item.
HostJson(data, schemaRequested) ==
    IF ~data.ok
    THEN [ok |-> FALSE, json |-> JsUndefined, error |-> data.error]
    ELSE [ok |-> TRUE,
          json |-> IF schemaRequested THEN data.value
                   ELSE [response |-> data.value],
          error |-> NoError]

\* Lines 315-339.
HostMapContent(content, schemaRequested, index) ==
    IF ~Truthy(content)
    THEN [ok |-> FALSE, json |-> JsUndefined,
          error |-> NodeOperationError(
                      <<"No content in response from LM Studio">>, index)]
    ELSE HostJson(ResponseData(content, schemaRequested, index),
                  schemaRequested)

\* Lines 306-315.
HostMapMessage(message, schemaRequested, index) ==
    IF ~Truthy(message)
    THEN [ok |-> FALSE, json |-> JsUndefined,
          error |-> NodeOperationError(
                      <<"Invalid response structure from LM Studio">>, index)]
    ELSE HostMapContent(message.content, schemaRequested, index)

\* Lines 306-339: [ok, json, error] for the data of the axios response.
HostMapResponse(response, schemaRequested, index) ==
    IF response.t \in {"null", "undefined"}
    THEN [ok |-> FALSE, json |-> JsUndefined,
          error |-> OtherError("TypeError",
                      <<"Cannot read properties of ", response.t,
                        " (reading 'choices')">>)]
    ELSE HostMapMessage(FirstMessage(response), schemaRequested, index)

\* Lines 343-347: the item pushed for a failure.
HostErrorItem(error, index) ==
    [json |-> items[index + 1].json, error |-> error, pairedItem |-> index]

\* Lines 349-356: an error with a context is thrown with the index written
\* into it, any other is wrapped.
HostRethrown(error, index) ==
    IF IsNodeError(error)
    THEN [error EXCEPT !.itemIndex = index]
    ELSE NodeOperationError(error.message, index)

\* A value of the hostName parameter, given without protocol.
HostName ==
    <<"l", "o", "c", "a", "l", "h", "o", "s", "t", ":", "1", "2", "3", "4">>

\* The parameter values the getter may return for an item.
HostParamSamples ==
    {[DefaultParams EXCEPT !.jsonSchema = s] @@ [hostName |-> HostName] :
        s \in {EmptySchema, ObjectSchema, JsStr(<<"{", "b">>)}}

InitHost ==
    /\ \E n \in 0..MaxItems : items = InputItems(n)
    /\ continueOnFail \in BOOLEAN
    /\ credentials = [hostUrl |-> LocalHost, apiKey |-> ""]
    /\ pc = "idle"
    /\ itemIndex = 0
    /\ params = NoParams
    /\ hasJsonSchema = FALSE
    /\ requests = <<>>
    /\ answer = NoAnswer
    /\ returnData = <<>>
    /\ output = <<>>
    /\ thrown = NoError
    /\ ModelsIdle

\* The end of an iteration: itemIndex++, the loop test of line 172 against
\* the array as it is now and, when it fails, the return of line 361.
HostNextItem ==
    /\ itemIndex' = itemIndex + 1
    /\ thrown' = thrown
    /\ IF itemIndex + 1 < Len(items')
       THEN pc' = "loop" /\ output' = output
       ELSE pc' = "returned" /\ output' = <<items'>>

\* Lines 340-358.
HostCatch(error) ==
    IF continueOnFail
    THEN /\ items' = Append(items, HostErrorItem(error, itemIndex))
         /\ HostNextItem
    ELSE /\ thrown' = HostRethrown(error, itemIndex)
         /\ pc' = "thrown"
         /\ UNCHANGED <<items, itemIndex, output>>

\* Lines 167-172: the call of execute, up to the first loop test.
HostExecute ==
    /\ pc = "idle"
    /\ IF Len(items) > 0
       THEN pc' = "loop" /\ output' = output
       ELSE pc' = "returned" /\ output' = <<items>>
    /\ UNCHANGED <<items, continueOnFail, credentials, itemIndex, params,
                   hasJsonSchema, requests, answer, returnData, thrown>>
    /\ UNCHANGED modelsVars

\* Lines 241-265: the request is issued; or the schema was rejected.
HostSend(p, att) ==
    /\ hasJsonSchema' = att.hasJsonSchema
    /\ IF att.ok
       THEN /\ requests' = Append(requests,
                                  HostRequestOptions(att.body, p, itemIndex))
            /\ pc' = "await"
            /\ UNCHANGED <<items, itemIndex, output, thrown>>
       ELSE /\ requests' = requests
            /\ HostCatch(att.error)

\* Lines 173-239.
HostPrepare(p) ==
    IF GetterFailed(p)
    THEN /\ hasJsonSchema' = FALSE
         /\ requests' = requests
         /\ HostCatch(p.getterError)
    ELSE HostSend(p, AttachSchema(BaseRequestBody(p), p.jsonSchema, itemIndex))

\* Lines 173-265: one iteration up to the await of axios, or to the catch.
HostBeginItem ==
    /\ pc = "loop"
    /\ itemIndex < MaxRuns
    /\ \E p \in HostParamSamples \cup {GetterFailure} :
        /\ params' = p
        /\ answer' = NoAnswer
        /\ HostPrepare(p)
    /\ UNCHANGED <<continueOnFail, credentials, returnData>>
    /\ UNCHANGED modelsVars

\* Lines 329 and 338, or the catch.
HostSettle(m) ==
    IF m.ok
    THEN /\ items' = [items EXCEPT ![itemIndex + 1].json = m.json]
         /\ HostNextItem
    ELSE HostCatch(m.error)

\* Lines 266-339: axios resolves.
HostResolve ==
    /\ pc = "await"
    /\ \E r \in ResponseSamples :
        /\ answer' = [kind |-> "resolved", response |-> r]
        /\ HostSettle(HostMapResponse(r, hasJsonSchema, itemIndex))
    /\ UNCHANGED <<continueOnFail, credentials, params, hasJsonSchema,
                   requests, returnData>>
    /\ UNCHANGED modelsVars

\* Lines 274-304: axios rejects, for a transport error or an abort.
HostReject ==
    /\ pc = "await"
    /\ \E e \in TransportErrorSamples \cup AbortErrorSamples :
        /\ answer' = [kind |-> "rejected", error |-> e]
        /\ HostCatch(HostTransportError(e, itemIndex))
    /\ UNCHANGED <<continueOnFail, credentials, params, hasJsonSchema,
                   requests, returnData>>
    /\ UNCHANGED modelsVars

NextHost ==
    \/ HostExecute
    \/ HostBeginItem
    \/ HostResolve
    \/ HostReject

SpecHost == InitHost /\ [][NextHost]_vars

(***************************************************************************)
(* Vocabulary of the properties of execute.  After BeginItem the locals    *)
(* (params, hasJsonSchema, answer) are those of one item, the current one, *)
(* until the next BeginItem replaces them.                                 *)
(***************************************************************************)
Current == params # NoParams

\* The index of the current item: itemIndex while it is awaited and after a
\* throw, itemIndex - 1 once the loop has moved on.
CurrentIndex == IF pc \in {"await", "thrown"} THEN itemIndex ELSE itemIndex - 1

ParamsRead == Current /\ ~GetterFailed(params)

\* The requests issued for item index.
RequestsOf(index) == {k \in DOMAIN requests : requests[k].itemIndex = index}

LastRequest == requests[Len(requests)]

LastRow == returnData[Len(returnData)]

\* The POST of the current item resolved, r being its body.
Resolved == answer.kind = "resolved"

Rejected == answer.kind = "rejected"

\* The request that was answered carried a response_format.
SchemaSent == "response_format" \in DOMAIN LastRequest.body

\* choices[0].message of the body is there.
HasMessage(r) ==
    /\ r.t = "object"
    /\ r.choices.t = "array"
    /\ r.choices.e # <<>>
    /\ r.choices.e[1].t = "object"
    /\ r.choices.e[1].message.t = "object"

ContentOf(r) == r.choices.e[1].message.content

\* choices[0].message.content of the body is a non-empty string.
HasContent(r) ==
    /\ HasMessage(r)
    /\ ContentOf(r).t = "string"
    /\ ContentOf(r).s # <<>>

\* The current item ended with a success row.
Succeeded ==
    /\ pc \in {"loop", "returned"}
    /\ returnData # <<>>
    /\ DOMAIN LastRow.json = {"response", "_metadata"}
    /\ LastRow.pairedItem = [item |-> CurrentIndex]

\* The current item failed: an error row with continue-on-failure, a throw
\* without.
Failed ==
    IF continueOnFail
    THEN /\ pc \in {"loop", "returned"}
         /\ returnData # <<>>
         /\ DOMAIN LastRow.json = {"error"}
         /\ LastRow.pairedItem = [item |-> CurrentIndex]
    ELSE pc = "thrown"

\* The message of the failure of the current item.
FailureMessage ==
    IF continueOnFail THEN LastRow.json.error ELSE thrown.message

(***************************************************************************)
(* C1.  In the credential-based execute, an item whose request carried no  *)
(* response_format and whose response has a non-empty                      *)
(* choices[0].message.content gets an output row whose json.response is    *)
(* exactly that content string, unparsed, and whose json._metadata.model   *)
(* is the model field of the response.                                     *)
(***************************************************************************)
C1_TextCase == Resolved /\ HasContent(answer.response) /\ ~SchemaSent

C1_TextResponseIsRawContent ==
    C1_TextCase =>
        /\ Succeeded
        /\ LastRow.json.response = ContentOf(answer.response)
        /\ LastRow.json._metadata.model = answer.response.model

\* The second item's response, whose content is JSON text and whose model
\* is not the one asked for, passed on as it is.
C1_Witness ==
    /\ C1_TextCase
    /\ ContentOf(answer.response)
            = JsStr(<<"{", "\"", "a", "\"", ":", "1", "}">>)
    /\ LastRow.json.response.t = "string"
    /\ answer.response.model = "other-model"
    /\ params.modelName = "test-model"
    /\ LastRow.json._metadata.model = "other-model"
    /\ itemIndex = 2

(***************************************************************************)
(* C2.  In the credential-based execute, an item whose schema was attached *)
(* to the request and whose response content is valid JSON text gets an    *)
(* output row whose json.response is the value JSON.parse gives for the    *)
(* content, not the string.                                                *)
(***************************************************************************)
C2_JsonCase ==
    /\ Resolved
    /\ HasContent(answer.response)
    /\ SchemaSent
    /\ JSONparse(ContentOf(answer.response).s).ok

C2_SchemaResponseIsParsed ==
    C2_JsonCase =>
        /\ Succeeded
        /\ LastRow.json.response = JSONparse(ContentOf(answer.response).s).v
        /\ LastRow.json.response # ContentOf(answer.response)
        /\ ContentOf(answer.response)
                = JsStr(<<"{", "\"", "a", "\"", ":", "1", "}">>)
             => LastRow.json.response
                    = JsObj(<<[k |-> <<"a">>, v |-> JsNum(1)]>>)

C2_Witness ==
    /\ C2_JsonCase
    /\ params.jsonSchema = ObjectSchema
    /\ LastRow.json.response = JsObj(<<[k |-> <<"a">>, v |-> JsNum(1)]>>)

(***************************************************************************)
(* C3.  An item whose JSON Schema parameter is a non-blank string that is  *)
(* not valid JSON fails with the InvalidSchema error, whose message starts *)
(* with 'Invalid JSON Schema', and no HTTP request is issued for it,       *)
(* whether continue-on-failure is set or not.                              *)
(***************************************************************************)
C3_MalformedSchemaCase ==
    /\ ParamsRead
    /\ params.jsonSchema.t = "string"
    /\ Trim(params.jsonSchema.s) # <<>>
    /\ ~JSONparse(params.jsonSchema.s).ok

C3_MalformedSchemaFailsBeforeRequest ==
    C3_MalformedSchemaCase =>
        /\ Failed
        /\ MessageStartsWith(FailureMessage, "Invalid JSON Schema: ")
        /\ ~continueOnFail => thrown.cls = "NodeOperationError"
        /\ RequestsOf(CurrentIndex) = {}

C3_Witness ==
    /\ C3_MalformedSchemaCase
    /\ continueOnFail
    /\ itemIndex = 2
    /\ RequestsOf(0) # {}
    /\ RequestsOf(1) = {}

(***************************************************************************)
(* C4.  With continue-on-failure enabled, a failure of an item of any of   *)
(* the six kinds (InvalidSchema, RequestFailed, RequestTimedOut,           *)
(* InvalidResponseStructure, NoContent, ContentParseFailed) makes execute  *)
(* emit exactly one output row for that item, whose json.error contains    *)
(* the failure message; nothing is thrown and the following items are      *)
(* still processed.                                                        *)
(***************************************************************************)
\* The schema of the current item does not parse, or parses to null.
C4_InvalidSchema ==
    /\ ParamsRead
    /\ params.jsonSchema.t = "string"
    /\ Trim(params.jsonSchema.s) # <<>>
    /\ \/ ~JSONparse(params.jsonSchema.s).ok
       \/ JSONparse(params.jsonSchema.s).v = JsNull

C4_RequestTimedOut == Rejected /\ IsTimeout(answer.error)

C4_RequestFailed == Rejected /\ ~IsTimeout(answer.error)

C4_InvalidResponseStructure ==
    Resolved /\ answer.response.t = "object" /\ ~HasMessage(answer.response)

C4_NoContent ==
    Resolved /\ HasMessage(answer.response) /\ ~HasContent(answer.response)

C4_ContentParseFailed ==
    /\ Resolved
    /\ HasContent(answer.response)
    /\ SchemaSent
    /\ ~JSONparse(ContentOf(answer.response).s).ok

\* The text every message of the kind holds.
C4_KindMessage ==
    CASE C4_InvalidSchema -> <<"Invalid JSON Schema: ">>
      [] C4_RequestTimedOut -> TimeoutMessage(params.timeout)
      [] C4_RequestFailed ->
            <<"LM Studio request failed: ">> \o answer.error.message
      [] C4_InvalidResponseStructure ->
            <<"Invalid response structure from LM Studio">>
      [] C4_NoContent -> <<"No content in response from LM Studio">>
      [] C4_ContentParseFailed -> <<"Failed to parse response as JSON: ">>

C4_FailureCase ==
    \/ C4_InvalidSchema
    \/ C4_RequestTimedOut
    \/ C4_RequestFailed
    \/ C4_InvalidResponseStructure
    \/ C4_NoContent
    \/ C4_ContentParseFailed

C4_ContinueOnFailEmitsErrorRow ==
    continueOnFail =>
        /\ pc # "thrown"
        /\ thrown = NoError
        /\ C4_FailureCase =>
            /\ pc = IF itemIndex < Len(items) THEN "loop" ELSE "returned"
            /\ Len(returnData) = itemIndex
            /\ {k \in DOMAIN returnData :
                    returnData[k].pairedItem.item = CurrentIndex}
                 = {Len(returnData)}
            /\ DOMAIN LastRow.json = {"error"}
            /\ MessageContains(LastRow.json.error, C4_KindMessage)

\* The first item failed, its row is an error row, and the second item has
\* been processed after it.
C4_Witness ==
    /\ continueOnFail
    /\ C4_FailureCase
    /\ pc = "returned"
    /\ Len(returnData) = 2
    /\ DOMAIN returnData[1].json = {"error"}
    /\ DOMAIN returnData[2].json = {"error"}
    /\ C4_ContentParseFailed

(***************************************************************************)
(* C5.  With continue-on-failure disabled, the first item that fails, for  *)
(* any reason raised inside the item loop (a failure of the parameter      *)
(* getter included), makes execute throw an error that carries that item's *)
(* index; no output list is returned and no HTTP request is issued for a   *)
(* later item.                                                             *)
(***************************************************************************)
\* Something failed for the current item: the getter, the schema, the
\* transport, or the response (a null body, no message, no content, content
\* that does not parse).
C5_FailureCase ==
    \/ Current /\ GetterFailed(params)
    \/ C4_FailureCase
    \/ Resolved /\ answer.response.t # "object"

C5_FailFastThrowsWithItemIndex ==
    ~continueOnFail =>
        /\ (C5_FailureCase => pc = "thrown")
        /\ \A k \in DOMAIN returnData :
                DOMAIN returnData[k].json = {"response", "_metadata"}
        /\ pc = "thrown" =>
            /\ C5_FailureCase
            /\ IsNodeError(thrown)
            /\ HasItemIndex(thrown)
            /\ thrown.itemIndex = itemIndex
            /\ Len(returnData) = itemIndex
            /\ output = <<>>
            /\ \A k \in DOMAIN requests : requests[k].itemIndex <= itemIndex
            /\ ~ENABLED Next

\* The getter fails for the second item, after the first one succeeded.
C5_Witness ==
    /\ ~continueOnFail
    /\ pc = "thrown"
    /\ GetterFailed(params)
    /\ itemIndex = 1
    /\ Len(items) = 2
    /\ Len(returnData) = 1
    /\ thrown.itemIndex = 1

(***************************************************************************)
(* C6.  A transport failure of the chat request results in exactly one of  *)
(* two errors.  When the error's code (its own code, or the code of its    *)
(* cause when it has no code of its own) is ETIMEDOUT, ESOCKETTIMEDOUT or  *)
(* ECONNABORTED, the item fails with the timeout error, whose message      *)
(* names the configured timeout in seconds: 'timed out after <timeout>     *)
(* seconds'.  Otherwise it fails with the request-failed error, whose      *)
(* message carries the message of the underlying error.                    *)
(***************************************************************************)
C6_TimeoutCode(err) ==
    \/ "code" \in DOMAIN err
        /\ err.code \in {"ETIMEDOUT", "ESOCKETTIMEDOUT", "ECONNABORTED"}
    \/ /\ "code" \notin DOMAIN err
       /\ "cause" \in DOMAIN err
       /\ "code" \in DOMAIN err.cause
       /\ err.cause.code \in {"ETIMEDOUT", "ESOCKETTIMEDOUT", "ECONNABORTED"}

C6_IsTimeoutError(message) ==
    /\ Len(message) = 3
    /\ message[1] = "Request timed out after "
    /\ message[2] = ToString(params.timeout)
    /\ message[3]
        = " seconds. Consider increasing the timeout for larger models."

C6_IsRequestFailedError(message) ==
    message = <<"LM Studio request failed: ">> \o answer.error.message

C6_TransportFailureKinds ==
    Rejected =>
        /\ Failed
        /\ IF C6_TimeoutCode(answer.error)
           THEN /\ C6_IsTimeoutError(FailureMessage)
                /\ ~C6_IsRequestFailedError(FailureMessage)
                /\ ~continueOnFail => thrown.cls = "NodeOperationError"
           ELSE /\ C6_IsRequestFailedError(FailureMessage)
                /\ ~C6_IsTimeoutError(FailureMessage)
                /\ ~continueOnFail => thrown.cls = "NodeApiError"

\* A timeout reported by the cause alone, with a timeout of 30 seconds.
C6_Witness ==
    /\ Rejected
    /\ answer.error = [message |-> <<"Server down">>,
                       cause |-> [code |-> "ETIMEDOUT"]]
    /\ params.timeout = 30
    /\ pc = "thrown"
    /\ thrown.message[2] = "30"

(***************************************************************************)
(* C7.  A response_format is attached to the request if and only if the    *)
(* schema parameter is a non-blank string that parses to a non-empty JSON  *)
(* object; when attached it is exactly {type: 'json_schema', json_schema:  *)
(* {name: 'outputSchema', strict: true, schema: <the parsed schema>}}; for *)
(* a blank, absent or '{}' schema no response_format is sent and no error  *)
(* is raised.                                                              *)
(***************************************************************************)
C7_NonEmptyObjectSchema ==
    /\ params.jsonSchema.t = "string"
    /\ Trim(params.jsonSchema.s) # <<>>
    /\ JSONparse(params.jsonSchema.s).ok
    /\ JSONparse(params.jsonSchema.s).v.t = "object"
    /\ JSONparse(params.jsonSchema.s).v.m # <<>>

\* '', white space only, null (no value), or '{}'.
C7_NoSchema ==
    \/ params.jsonSchema.t = "null"
    \/ /\ params.jsonSchema.t = "string"
       /\ \/ Trim(params.jsonSchema.s) = <<>>
          \/ params.jsonSchema = EmptySchema

C7_Attached ==
    \E k \in RequestsOf(CurrentIndex) :
        "response_format" \in DOMAIN requests[k].body

C7_ResponseFormatIffNonEmptyObject ==
    ParamsRead =>
        /\ C7_Attached <=> C7_NonEmptyObjectSchema
        /\ \A k \in RequestsOf(CurrentIndex) :
            "response_format" \in DOMAIN requests[k].body =>
                requests[k].body.response_format
                    = [type |-> "json_schema",
                       json_schema |->
                          [name |-> "outputSchema",
                           strict |-> TRUE,
                           schema |-> JSONparse(params.jsonSchema.s).v]]
        /\ C7_NoSchema =>
            /\ RequestsOf(CurrentIndex) # {}
            /\ ~C7_Attached
            /\ Resolved \/ Rejected \/ pc = "await"

(***************************************************************************)
(* C8.  The response content is JSON-parsed if and only if a schema was    *)
(* attached to the request of the item.  When it was attached and the      *)
(* content is not valid JSON, the item fails with ContentParseFailed,      *)
(* whose message includes the raw content.  When no schema was attached    *)
(* the content is returned unchanged as a string, even if it is itself     *)
(* valid JSON text.                                                        *)
(***************************************************************************)
C8_ContentCase == Resolved /\ HasContent(answer.response)

C8_ContentParsedIffSchema ==
    C8_ContentCase =>
        /\ hasJsonSchema <=> SchemaSent
        /\ IF ~SchemaSent
           THEN /\ Succeeded
                /\ LastRow.json.response = ContentOf(answer.response)
           ELSE IF JSONparse(ContentOf(answer.response).s).ok
           THEN /\ Succeeded
                /\ LastRow.json.response
                        = JSONparse(ContentOf(answer.response).s).v
                /\ LastRow.json.response.t # "string"
           ELSE /\ Failed
                /\ MessageStartsWith(FailureMessage,
                                     "Failed to parse response as JSON: ")
                /\ MessageContains(FailureMessage,
                        <<". Content: ", Text(ContentOf(answer.response).s)>>)

\* A schema was sent and the model answered plain text.
C8_Witness ==
    /\ C8_ContentCase
    /\ SchemaSent
    /\ ContentOf(answer.response) = JsStr(<<"h", "i">>)
    /\ continueOnFail
    /\ LastRow.json.error[Len(LastRow.json.error)] = "hi"

(***************************************************************************)
(* C9.  For every response the HTTP call returns: when choices, choices[0] *)
(* or choices[0].message is missing, the item fails with 'Invalid response *)
(* structure from LM Studio'; when the message is there but its content is *)
(* empty or missing, the item fails with 'No content in response from LM   *)
(* Studio'; in neither case is a success row produced for the item.        *)
(***************************************************************************)
C9_ResponseStructureChecked ==
    Resolved =>
        /\ ~HasMessage(answer.response) =>
            /\ Failed
            /\ FailureMessage = <<"Invalid response structure from LM Studio">>
        /\ HasMessage(answer.response) /\ ~HasContent(answer.response) =>
            /\ Failed
            /\ FailureMessage = <<"No content in response from LM Studio">>

(***************************************************************************)
(* C10.  For every models response with a data array, getModels returns    *)
(* exactly the entries whose type is 'llm' or 'vlm' (every other type, or  *)
(* a missing type, is dropped, and no llm/vlm entry is lost or             *)
(* duplicated), ordered ascending by display name.                         *)
(***************************************************************************)
C10_DataCase ==
    /\ modelsPc = "returned"
    /\ modelsAnswer.kind = "resolved"
    /\ modelsAnswer.response.t = "object"
    /\ "data" \in DOMAIN modelsAnswer.response
    /\ modelsAnswer.response.data.t = "array"

C10_Data == modelsAnswer.response.data.e

\* The places of the data array that hold an llm or a vlm.
C10_Retained ==
    {k \in DOMAIN C10_Data :
        /\ C10_Data[k].t = "object"
        /\ C10_Data[k].type.t = "string"
        /\ C10_Data[k].type.s \in {<<"l", "l", "m">>, <<"v", "l", "m">>}}

\* The options are the retained entries, each one once.
C10_OptionsAreRetained ==
    /\ Len(options) = Cardinality(C10_Retained)
    /\ \A k \in C10_Retained :
        Cardinality({j \in DOMAIN options : options[j].value = C10_Data[k].id})
            = Cardinality({j \in C10_Retained :
                            C10_Data[j].id = C10_Data[k].id})

C10_OrderedByName ==
    \A i, j \in DOMAIN options :
        i < j => LocaleCompare(options[i].name, options[j].name) <= 0

\* The claim as it stands.
C10_EveryDataArrayFilteredAndSorted ==
    C10_DataCase => C10_OptionsAreRetained /\ C10_OrderedByName

C10_WellFormed == \A k \in DOMAIN C10_Data : C10_Data[k].t = "object"

\* The claim as amended: the entries are objects and one of them is an llm
\* or a vlm; without such an entry the answer is the sentinel.
C10_FilteredAndSortedOrSentinel ==
    C10_DataCase /\ C10_WellFormed =>
        IF C10_Retained # {}
        THEN C10_OptionsAreRetained /\ C10_OrderedByName
        ELSE options = NoModelsFound

\* Three entries in an order that is not that of their names, one of them
\* dropped.
C10_Witness ==
    /\ C10_DataCase
    /\ C10_Data = <<ModelEntry(<<"B">>, Vlm, NotLoaded, JsUndefined),
                    ModelEntry(<<"w">>, Asr, JsUndefined, JsUndefined),
                    ModelEntry(<<"a">>, Llm, Loaded, JsUndefined)>>
    /\ Len(options) = 2
    /\ options[1].value = JsStr(<<"a">>)
    /\ options[2].value = JsStr(<<"B">>)

(***************************************************************************)
(* C11.  getModels never fails once the credentials are resolved: for      *)
(* every outcome of the GET (a transport error, a status that is not 2xx,  *)
(* a body that is null, lacks data, has a data that is no array, or has    *)
(* malformed entries) and for every host URL, it returns normally; on a    *)
(* failed call or a body without a data array the result is exactly one    *)
(* sentinel option with an empty value.                                    *)
(***************************************************************************)
C11_Answered == modelsAnswer.kind # "none"

C11_NoDataArray ==
    \/ modelsAnswer.kind = "rejected"
    \/ /\ modelsAnswer.kind = "resolved"
       /\ \/ modelsAnswer.response.t # "object"
          \/ "data" \notin DOMAIN modelsAnswer.response
          \/ modelsAnswer.response.data.t # "array"

C11_GetModelsNeverFails ==
    /\ modelsPc # "thrown"
    /\ C11_Answered => modelsPc = "returned"
    /\ C11_Answered /\ C11_NoDataArray =>
        /\ Len(options) = 1
        /\ options[1].value = JsStr(<<>>)

\* The body lists a null entry, and the host URL has no scheme and ends
\* with slashes.
C11_Witness ==
    /\ modelsPc = "returned"
    /\ modelsAnswer.kind = "resolved"
    /\ modelsAnswer.response
        = [t |-> "object",
           data |-> JsArr(<<ModelEntry(<<"a">>, Llm, Loaded, JsUndefined),
                            JsNull>>)]
    /\ credentials.hostUrl = <<"h", "/", "/">>
    /\ options = CouldNotConnect

(***************************************************************************)
(* C12.  Every chat-completions request carries the header 'Authorization: *)
(* Bearer <key>' if and only if the API key of the resolved credential is  *)
(* non-empty; with an empty key the request has no Authorization header.   *)
(***************************************************************************)
C12_ChatRequests == {k \in DOMAIN requests : requests[k].method = "POST"}

C12_BearerIffApiKey ==
    \A k \in C12_ChatRequests :
        IF credentials.apiKey # ""
        THEN /\ "Authorization" \in DOMAIN requests[k].headers
             /\ requests[k].headers["Authorization"]
                    = "Bearer " \o credentials.apiKey
        ELSE "Authorization" \notin DOMAIN requests[k].headers

\* A request was sent with a key, as in the unit test.
C12_Witness ==
    /\ C12_ChatRequests # {}
    /\ credentials.apiKey = "sk-test-123"
    /\ LastRequest.headers["Authorization"] = "Bearer sk-test-123"

(***************************************************************************)
(* C14.  The timeout handed to the HTTP call is the configured timeout in  *)
(* seconds multiplied by 1000 (milliseconds) when the configured value is  *)
(* greater than 0, and no timeout at all when the configured value is 0.   *)
(***************************************************************************)
\* The request of the current item was sent.
C14_Sent == ParamsRead /\ RequestsOf(CurrentIndex) # {}

C14_TimeoutInMilliseconds ==
    C14_Sent =>
        /\ params.timeout > 0 =>
            /\ "timeout" \in DOMAIN LastRequest
            /\ LastRequest.timeout = 1000 * params.timeout
        /\ params.timeout = 0 => "timeout" \notin DOMAIN LastRequest

\* Thirty seconds are configured.
C14_Witness ==
    /\ C14_Sent
    /\ params.timeout = 30
    /\ LastRequest.timeout = 30000

(***************************************************************************)
(* C16.  Every chat request body contains the model of the item, its       *)
(* temperature and exactly one message, with role 'user', whose content is *)
(* the message of the item; max_tokens is present if and only if the       *)
(* max-tokens parameter is a number greater than 0.                        *)
(***************************************************************************)
C16_MaxTokensGiven ==
    /\ params.maxTokens.t = "number"
    /\ params.maxTokens.n > 0

C16_RequestBody ==
    C14_Sent =>
        /\ LastRequest.body.model = params.modelName
        /\ LastRequest.body.temperature = params.temperature
        /\ Len(LastRequest.body.messages) = 1
        /\ LastRequest.body.messages[1]
                = [role |-> "user", content |-> params.message]
        /\ "max_tokens" \in DOMAIN LastRequest.body <=> C16_MaxTokensGiven
        /\ C16_MaxTokensGiven =>
                LastRequest.body.max_tokens = params.maxTokens.n

\* A request with max_tokens.
C16_Witness ==
    /\ C14_Sent
    /\ params.maxTokens = JsNum(50)
    /\ LastRequest.body.max_tokens = 50
    /\ LastRequest.body.model = "other-model"
    /\ LastRequest.body.temperature = 0

(***************************************************************************)
(* C13.  buildUrl(base, path): when the base has no scheme it is prefixed  *)
(* with 'http://', when the base already has a scheme it is left           *)
(* unprefixed; all trailing slashes of the base are removed, so the result *)
(* is the normalized base immediately followed by the path, with no        *)
(* doubled slash at the junction.                                          *)
(***************************************************************************)
\* The GET of getModels was issued: its url is buildUrl(hostUrl, path).
C13_Built == modelsPc # "idle" /\ requests # <<>>

\* s starts with letters followed by "://".
C13_HasScheme(s) ==
    \E k \in 1..(Len(s) - 3) :
        /\ \A j \in 1..k : s[j] \in Range(LowerCase) \cup Range(UpperCase)
        /\ SubSeq(s, k + 1, k + 3) = <<":", "/", "/">>

\* s starts with http:// or https://.
C13_HasHttpScheme(s) ==
    \/ /\ Len(s) >= 7
       /\ SubSeq(s, 1, 7) = <<"h", "t", "t", "p", ":", "/", "/">>
    \/ /\ Len(s) >= 8
       /\ SubSeq(s, 1, 8) = <<"h", "t", "t", "p", "s", ":", "/", "/">>

\* s without the slashes it ends with.
C13_WithoutTrailingSlashes(s) ==
    LET n == CHOOSE n \in 0..Len(s) :
                /\ n = 0 \/ s[n] # "/"
                /\ \A k \in (n + 1)..Len(s) : s[k] = "/"
    IN  SubSeq(s, 1, n)

C13_UrlOf(base) ==
    Text(C13_WithoutTrailingSlashes(base) \o ModelsPath)

\* The claim as it stands: any scheme keeps the base unprefixed.
C13_AnySchemeKept ==
    C13_Built =>
        requests[1].url
            = IF C13_HasScheme(credentials.hostUrl)
              THEN C13_UrlOf(credentials.hostUrl)
              ELSE C13_UrlOf(<<"h", "t", "t", "p", ":", "/", "/">>
                                \o credentials.hostUrl)

\* The claim as amended: only http:// and https:// keep the base unprefixed.
C13_HttpSchemeKept ==
    C13_Built =>
        requests[1].url
            = IF C13_HasHttpScheme(credentials.hostUrl)
              THEN C13_UrlOf(credentials.hostUrl)
              ELSE C13_UrlOf(<<"h", "t", "t", "p", ":", "/", "/">>
                                \o credentials.hostUrl)

\* A host with no scheme that ends with two slashes.
C13_Witness ==
    /\ C13_Built
    /\ credentials.hostUrl = <<"h", ":", "8", "/", "/">>
    /\ requests[1].url = "http://h:8/api/v0/models"

(***************************************************************************)
(* C17.  For every retained model, the value of the option is the model    *)
(* id, its name is the id followed by ' (loaded)' exactly when the state   *)
(* is 'loaded' and the bare id otherwise, and its description is           *)
(* 'Quantization: <value>' exactly when a quantization label is present    *)
(* and absent otherwise.                                                   *)
(***************************************************************************)
\* The list returned is that of the retained models.
C17_Case == C10_DataCase /\ C10_WellFormed /\ C10_Retained # {}

C17_IsLoaded(model) == model.state = JsStr(<<"l", "o", "a", "d", "e", "d">>)

\* A quantization label is a string that is not empty.
C17_HasLabel(model) ==
    model.quantization.t = "string" /\ model.quantization.s # <<>>

\* option is the option of model.
C17_OptionOf(option, model) ==
    /\ option.value = model.id
    /\ option.name
        = IF C17_IsLoaded(model)
          THEN model.id.s \o <<" ", "(", "l", "o", "a", "d", "e", "d", ")">>
          ELSE model.id.s
    /\ option.description
        = IF C17_HasLabel(model)
          THEN JsStr(<<"Quantization: ">> \o model.quantization.s)
          ELSE JsUndefined

C17_OptionsDescribeModels ==
    C17_Case =>
        /\ \A k \in C10_Retained :
            \E j \in DOMAIN options : C17_OptionOf(options[j], C10_Data[k])
        /\ \A j \in DOMAIN options :
            \E k \in C10_Retained : C17_OptionOf(options[j], C10_Data[k])

\* A loaded model without label and a model with a label that is not loaded.
C17_Witness ==
    /\ C17_Case
    /\ C10_Data = <<ModelEntry(<<"b">>, Llm, NotLoaded, Q4),
                    ModelEntry(<<"a">>, Llm, Loaded, JsUndefined)>>
    /\ options[1].name = <<"a", " ", "(", "l", "o", "a", "d", "e", "d", ")">>
    /\ options[1].description = JsUndefined
    /\ options[2].name = <<"b">>
    /\ options[2].description = JsStr(<<"Quantization: ", "Q", "4">>)

(***************************************************************************)
(* C15.  Every successful output row, whether or not a schema was          *)
(* requested, has the shape {response, _metadata}, where _metadata holds   *)
(* exactly model, usage, created and id copied from the top level of the   *)
(* response and finish_reason copied from choices[0], and the pairedItem   *)
(* of the row is the index of the input item it came from.                 *)
(***************************************************************************)
C15_SuccessRows ==
    {k \in DOMAIN returnData : "error" \notin DOMAIN returnData[k].json}

\* The current item ended with a row that is no error row.
C15_SuccessCase ==
    /\ Resolved
    /\ pc \in {"loop", "returned"}
    /\ Len(returnData) \in C15_SuccessRows

C15_SuccessRowShape ==
    /\ \A k \in C15_SuccessRows :
        /\ DOMAIN returnData[k].json = {"response", "_metadata"}
        /\ DOMAIN returnData[k].json._metadata
                = {"model", "usage", "created", "id", "finish_reason"}
        /\ returnData[k].pairedItem = [item |-> k - 1]
    /\ C15_SuccessCase =>
        /\ LastRow.json._metadata.model = answer.response.model
        /\ LastRow.json._metadata.usage = answer.response.usage
        /\ LastRow.json._metadata.created = answer.response.created
        /\ LastRow.json._metadata.id = answer.response.id
        /\ LastRow.json._metadata.finish_reason
                = answer.response.choices.e[1].finish_reason
        /\ LastRow.pairedItem.item = CurrentIndex

\* The second item got a schema and an answer cut at the token limit.
C15_Witness ==
    /\ C15_SuccessCase
    /\ SchemaSent
    /\ Len(returnData) = 2
    /\ LastRow.pairedItem.item = 1
    /\ LastRow.json._metadata
        = [model |-> "other-model",
           usage |-> [prompt_tokens |-> 7, completion_tokens |-> 50],
           created |-> 1700000001,
           id |-> "chatcmpl-xyz",
           finish_reason |-> "length"]

(***************************************************************************)
(* C18.  When the chat request in flight is aborted by the cancellation    *)
(* signal supplied from outside, the item fails with the RequestTimedOut   *)
(* kind (the dedicated timeout/abort error), not with RequestFailed.       *)
(***************************************************************************)
C18_Aborted == Rejected /\ answer.error \in AbortErrorSamples

C18_AbortIsRequestTimedOut ==
    C18_Aborted =>
        /\ Failed
        /\ C6_IsTimeoutError(FailureMessage)
        /\ ~C6_IsRequestFailedError(FailureMessage)

(***************************************************************************)
(* C20.  With continue-on-failure enabled, the credential-based execute    *)
(* returns a list of exactly as many rows as there are input items, in     *)
(* input order: the k-th row has pairedItem index k and is either a        *)
(* success row or an error row, for every mix of succeeding and failing    *)
(* items; an empty input yields an empty list.                             *)
(***************************************************************************)
C20_Returned == continueOnFail /\ pc = "returned"

C20_OneRowPerItem ==
    /\ continueOnFail => pc # "thrown"
    /\ C20_Returned =>
        /\ Len(output) = 1
        /\ Len(output[1]) = Len(items)
        /\ \A k \in DOMAIN output[1] :
            /\ output[1][k].pairedItem = [item |-> k - 1]
            /\ \/ DOMAIN output[1][k].json = {"error"}
               \/ DOMAIN output[1][k].json = {"response", "_metadata"}

\* The first item failed and the second succeeded.
C20_Witness ==
    /\ C20_Returned
    /\ Len(items) = 2
    /\ DOMAIN output[1][1].json = {"error"}
    /\ DOMAIN output[1][2].json = {"response", "_metadata"}

(***************************************************************************)
(* C19.  In the hostName-based variants of execute, which write results    *)
(* back into the input array, with continue-on-failure enabled and for any *)
(* pattern of failing requests, the item loop runs exactly once per        *)
(* original input item, the invocation terminates, and the returned list   *)
(* holds exactly one item per original input item.                         *)
(***************************************************************************)
\* The input items: those of the array that no catch block pushed.
C19_InputItems == {k \in DOMAIN items : "error" \notin DOMAIN items[k]}

C19_OnceForEveryInputItem ==
    continueOnFail =>
        /\ itemIndex <= Cardinality(C19_InputItems)
        /\ pc = "returned" =>
            /\ itemIndex = Cardinality(C19_InputItems)
            /\ Len(output[1]) = Cardinality(C19_InputItems)

(***************************************************************************)
(* C21.  The credential-based execute issues at most one HTTP request per  *)
(* input item in an invocation and never sends a request again after a     *)
(* failure or a timeout; an item issues exactly one request when its       *)
(* schema is accepted and none when its schema is rejected.                *)
(***************************************************************************)
\* The schema of the current item is a non-blank string that is no JSON, or
\* one that parses to null.
C21_SchemaRejected ==
    /\ params.jsonSchema.t = "string"
    /\ Trim(params.jsonSchema.s) # <<>>
    /\ \/ ~JSONparse(params.jsonSchema.s).ok
       \/ JSONparse(params.jsonSchema.s).v.t = "null"

C21_OneRequestPerItem ==
    /\ \A k \in DOMAIN requests : requests[k].itemIndex \in 0..(Len(items) - 1)
    /\ \A i \in 0..(Len(items) - 1) : Cardinality(RequestsOf(i)) <= 1
    /\ ParamsRead =>
        Cardinality(RequestsOf(CurrentIndex))
            = IF C21_SchemaRejected THEN 0 ELSE 1
    /\ Current /\ GetterFailed(params) => RequestsOf(CurrentIndex) = {}

\* The request of the first item timed out and the schema of the second was
\* rejected: one request in all.
C21_Witness ==
    /\ continueOnFail
    /\ pc = "returned"
    /\ Len(items) = 2
    /\ ParamsRead
    /\ C21_SchemaRejected
    /\ Len(requests) = 1
    /\ "error" \in DOMAIN returnData[1].json
    /\ returnData[1].json.error[1] = "Request timed out after "

(***************************************************************************)
(* C22.  At every moment of an invocation at most one HTTP request is in   *)
(* flight: the request for item i+1 is issued only after the request of    *)
(* item i has completed and the success or error outcome of item i has     *)
(* been recorded.                                                          *)
(***************************************************************************)
\* The outcome of item i is recorded: a row of it was pushed, or its error
\* was thrown.
C22_Recorded(i) ==
    \/ \E k \in DOMAIN returnData : returnData[k].pairedItem.item = i
    \/ pc = "thrown" /\ thrown.itemIndex = i

\* The requests issued whose outcome is not recorded.
C22_InFlight ==
    {k \in DOMAIN requests : ~C22_Recorded(requests[k].itemIndex)}

C22_OneRequestInFlight ==
    /\ Cardinality(C22_InFlight) <= 1
    /\ C22_InFlight # {} <=> pc = "await"
    /\ \A k \in DOMAIN requests :
        \A i \in 0..(requests[k].itemIndex - 1) : C22_Recorded(i)

\* The request of the second item is in flight, that of the first is done.
C22_Witness ==
    /\ pc = "await"
    /\ itemIndex = 1
    /\ Len(requests) = 2
    /\ C22_InFlight = {2}
    /\ Len(returnData) = 1

(***************************************************************************)
(* C23.  Each failing item reports exactly one error kind, the one of the  *)
(* first stage that fails in the fixed order schema parsing, transport,    *)
(* response-structure check, content-emptiness check, content JSON         *)
(* parsing; a later stage is never evaluated after an earlier one has      *)
(* failed.                                                                 *)
(***************************************************************************)
\* The parameters of the current item were read and the item has ended.
C23_Settled ==
    /\ ParamsRead
    /\ pc \in {"loop", "returned", "thrown"}

\* The kind of the first stage that fails for the current item.
C23_FirstFailedStage ==
    IF C21_SchemaRejected THEN "InvalidSchema"
    ELSE IF Rejected
    THEN IF C6_TimeoutCode(answer.error)
         THEN "RequestTimedOut" ELSE "RequestFailed"
    ELSE IF ~HasMessage(answer.response) THEN "InvalidResponseStructure"
    ELSE IF ~HasContent(answer.response) THEN "NoContent"
    ELSE IF SchemaSent /\ ~JSONparse(ContentOf(answer.response).s).ok
    THEN "ContentParseFailed"
    ELSE "none"

\* The kind a message reports.
C23_ReportedKind(message) ==
    IF message = <<>> THEN "other"
    ELSE IF message[1] = "Invalid JSON Schema: " THEN "InvalidSchema"
    ELSE IF message[1] = "Request timed out after " THEN "RequestTimedOut"
    ELSE IF message[1] = "LM Studio request failed: " THEN "RequestFailed"
    ELSE IF message = <<"Invalid response structure from LM Studio">>
    THEN "InvalidResponseStructure"
    ELSE IF message = <<"No content in response from LM Studio">>
    THEN "NoContent"
    ELSE IF message[1] = "Failed to parse response as JSON: "
    THEN "ContentParseFailed"
    ELSE "other"

C23_FirstFailedStageReported ==
    C23_Settled =>
        IF C23_FirstFailedStage = "none"
        THEN Succeeded
        ELSE /\ Failed
             /\ C23_ReportedKind(FailureMessage) = C23_FirstFailedStage

(***************************************************************************)
(* C24.  With continue-on-failure enabled, the output row of item i is a   *)
(* function only of the parameters of item i, the resolved credentials and *)
(* the answer of the server to the request of item i: two invocations that *)
(* agree on these for item i produce the same row i, whatever the other    *)
(* items contain and whether they succeed or fail.                         *)
(***************************************************************************)
\* The row of an item whose request was answered with m.
C24_RowAfterResponse(m, index) ==
    IF m.ok THEN m.row ELSE ErrorRow(m.error, index)

\* The row of an item whose schema block ended with att.
C24_RowAfterSchema(att, p, a, index) ==
    IF ~att.ok THEN ErrorRow(att.error, index)
    ELSE IF a.kind = "rejected"
    THEN ErrorRow(TransportError(a.error, p.timeout, index), index)
    ELSE C24_RowAfterResponse(
            MapResponse(a.response, att.hasJsonSchema, index), index)

\* The row of item index as a function of its parameters p and of the
\* answer a to its request: no variable of the invocation is read.
C24_Row(p, a, index) ==
    IF GetterFailed(p)
    THEN ErrorRow(p.getterError, index)
    ELSE C24_RowAfterSchema(
            AttachSchema(BaseRequestBody(p), p.jsonSchema, index),
            p, a, index)

\* The current item has ended with a row.
C24_RowCase ==
    /\ continueOnFail
    /\ Current
    /\ pc \in {"loop", "returned"}

C24_RowDependsOnItemOnly ==
    C24_RowCase =>
        /\ Len(returnData) = CurrentIndex + 1
        /\ LastRow = C24_Row(params, answer, CurrentIndex)

\* The first item had a schema and failed to parse; the second, without a
\* schema, gets its text back although it is JSON.
C24_Witness ==
    /\ C24_RowCase
    /\ Len(returnData) = 2
    /\ "error" \in DOMAIN returnData[1].json
    /\ returnData[1].json.error[1] = "Failed to parse response as JSON: "
    /\ "jsonSchema" \in DOMAIN params
    /\ params.jsonSchema = JsStr(<<>>)
    /\ "response" \in DOMAIN LastRow.json
    /\ LastRow.json.response = JsStr(<<"{", "\"", "a", "\"", ":", "1", "}">>)

(***************************************************************************)
(* C25.  execute never modifies its input: no step writes the input items, *)
(* so on return and on throw the input has the length and the json it had  *)
(* at entry, and results are only appended to the separate list            *)
(* returnData.                                                             *)
(***************************************************************************)
\* returnData after a step is returnData before it, or that with one row
\* appended.
C25_OnlyAppended ==
    \/ returnData' = returnData
    \/ /\ Len(returnData') = Len(returnData) + 1
       /\ SubSeq(returnData', 1, Len(returnData)) = returnData

C25_InputNeverModified ==
    [][items' = items /\ C25_OnlyAppended]_vars

\* execute threw at the second item after a row was appended for the first:
\* the two input items are as they were at entry.
C25_Witness ==
    /\ pc = "thrown"
    /\ Len(returnData) = 1
    /\ itemIndex = 1
    /\ items = InputItems(2)

(***************************************************************************)
(* C26.  getModels never returns an empty list: when the data array is     *)
(* empty or contains no llm/vlm entry it returns exactly one sentinel      *)
(* option, 'No Models Found', with an empty value, and a sentinel option   *)
(* is never mixed with real model options.                                 *)
(***************************************************************************)
C26_Sentinels == {NoModelsFound[1], CouldNotConnect[1]}

C26_NeverEmpty == modelsPc = "returned" => Len(options) >= 1

\* A list that holds a sentinel holds nothing else.
C26_NeverMixed ==
    (\E k \in DOMAIN options : options[k] \in C26_Sentinels)
        => Len(options) = 1

\* The claim as it stands: every data array without an llm or a vlm gives
\* 'No Models Found'.
C26_SentinelForNoModels ==
    /\ C26_NeverEmpty
    /\ C26_NeverMixed
    /\ C10_DataCase /\ C10_Retained = {} => options = NoModelsFound

\* The claim as amended: a data array of objects without an llm or a vlm
\* gives 'No Models Found'; a data array with a null entry gives the other
\* sentinel, 'Could Not Connect to LM Studio'.
C26_SentinelForNoModelsOrNullEntry ==
    /\ C26_NeverEmpty
    /\ C26_NeverMixed
    /\ C10_DataCase /\ C10_Retained = {} =>
            IF C10_WellFormed
            THEN options = NoModelsFound
            ELSE options = CouldNotConnect

\* Two entries, neither an llm nor a vlm: the answer is the sentinel alone.
C26_Witness ==
    /\ C10_DataCase
    /\ C10_Data = <<ModelEntry(<<"w">>, Asr, JsUndefined, JsUndefined),
                    ModelEntry(<<"a">>, JsUndefined, Loaded, JsUndefined)>>
    /\ options = NoModelsFound

====
